---------------------------- MODULE Spec2Model ----------------------------
(***************************************************************************)
(* Model of package kcpraw (sess.go): the address validator, the two       *)
(* process-wide caches with their mutexes, the six establishment entry     *)
(* points, the two cache lookups and the five configuration setters.       *)
(*                                                                         *)
(* Strings are sequences of one-character strings, so that the address     *)
(* parsing of checkAddr and the key concatenation of the MSS cache are     *)
(* computed as the code computes them.  Every caller is a thread; a call   *)
(* advances one source statement at a time (th[t].pc), so that calls       *)
(* interleave exactly where goroutines can.                                *)
(***************************************************************************)
EXTENDS Integers, Sequences, FiniteSets, TLC

(***************************************************************************)
(* Bounds of the model.                                                    *)
(***************************************************************************)
NumThreads == 2
MaxLen == 9
MaxBracketLen == 4
MaxMulConn == 2

Threads == 1..NumThreads

(***************************************************************************)
(* Strings.                                                                *)
(***************************************************************************)
Index(s, c) ==
    IF \E i \in 1..Len(s) : s[i] = c
    THEN CHOOSE i \in 1..Len(s) : s[i] = c /\ \A j \in 1..(i - 1) : s[j] # c
    ELSE 0

LastIndex(s, c) ==
    IF \E i \in 1..Len(s) : s[i] = c
    THEN CHOOSE i \in 1..Len(s) : s[i] = c /\ \A j \in (i + 1)..Len(s) : s[j] # c
    ELSE 0

Contains(s, from, c) == \E i \in from..Len(s) : s[i] = c

SeqsUpTo(S, n) == UNION {[1..k -> S] : k \in 0..n}

ZeroHost == <<"0", ".", "0", ".", "0", ".", "0">>

(***************************************************************************)
(* net.SplitHostPort as called at sess.go:68.  The result is               *)
(* [ok, host, port]; ok = FALSE stands for the *net.AddrError it returns   *)
(* (missing port, too many colons, missing or unexpected brackets).        *)
(***************************************************************************)
SplitFail == [ok |-> FALSE, host |-> <<>>, port |-> <<>>]

SplitHostPort(hostport) ==
    LET i == LastIndex(hostport, ":")
        n == Len(hostport)
    IN  IF i = 0 THEN SplitFail
        ELSE IF hostport[1] = "["
        THEN LET end == Index(hostport, "]")
             IN  IF end = 0 THEN SplitFail
                 ELSE IF end = n THEN SplitFail
                 ELSE IF end + 1 # i THEN SplitFail
                 ELSE IF Contains(hostport, 2, "[") THEN SplitFail
                 ELSE IF Contains(hostport, end + 1, "]") THEN SplitFail
                 ELSE [ok |-> TRUE,
                       host |-> SubSeq(hostport, 2, end - 1),
                       port |-> SubSeq(hostport, i + 1, n)]
        ELSE LET host == SubSeq(hostport, 1, i - 1)
             IN  IF Contains(host, 1, ":") THEN SplitFail
                 ELSE IF Contains(hostport, 1, "[") THEN SplitFail
                 ELSE IF Contains(hostport, 1, "]") THEN SplitFail
                 ELSE [ok |-> TRUE,
                       host |-> host,
                       port |-> SubSeq(hostport, i + 1, n)]

(* A validator without the test of line 73.                                *)
checkAddr_NoZeroHost(addr) ==
    LET r == SplitHostPort(addr)
    IN  IF ~r.ok THEN "SplitHostPort"
        ELSE IF Len(r.host) = 0 THEN "EmptyHost"
        ELSE "nil"

(***************************************************************************)
(* checkAddr (sess.go:67-77).  The result is the error's cause: "nil" for  *)
(* success, "SplitHostPort" for the error of net.SplitHostPort,            *)
(* "EmptyHost" for "You must set the addr to ip:port" and "ZeroHost" for   *)
(* "You can't set host to 0.0.0.0".                                        *)
(***************************************************************************)
checkAddr(addr) ==
    LET r == SplitHostPort(addr)
    IN  IF ~r.ok THEN "SplitHostPort"
        ELSE IF Len(r.host) = 0 THEN "EmptyHost"
        ELSE IF r.host = ZeroHost THEN "ZeroHost"
        ELSE "nil"


(***************************************************************************)
(* Addresses used by callers and reported by the stub transport.  Two of   *)
(* the (local, remote) pairs print to the same concatenation:              *)
(* "1.1.1.1:12"+"3.1.1.1:5" and "1.1.1.1:1"+"23.1.1.1:5".                  *)
(***************************************************************************)
LAddr1 == <<"1", ".", "1", ".", "1", ".", "1", ":", "1", "2">>
LAddr2 == <<"1", ".", "1", ".", "1", ".", "1", ":", "1">>
RAddr1 == <<"3", ".", "1", ".", "1", ".", "1", ":", "5">>
RAddr2 == <<"2", "3", ".", "1", ".", "1", ".", "1", ":", "5">>
HostAddr == <<"h", ":", "5">>
WildAddr == <<"0", ".", "0", ".", "0", ".", "0", ":", "5">>
NoHostAddr == <<":", "5">>
NoPortAddr == <<"h">>

LocalAddrs == {LAddr1, LAddr2}
RemoteAddrs == {RAddr1, RAddr2}
BadAddrs == {WildAddr, NoHostAddr, NoPortAddr}
DialAddrs == RemoteAddrs \cup {HostAddr} \cup BadAddrs
ListenAddrs == LocalAddrs \cup {HostAddr} \cup BadAddrs
MSSValues == {1400, 1460}

(* The (local, remote) pairs of the connections the stub transport makes,  *)
(* and the local addresses its listeners bind.                             *)
StubPairs == {<<LAddr1, RAddr1>>, <<LAddr2, RAddr1>>, <<LAddr2, RAddr2>>}
StubBinds == {LAddr1}

(***************************************************************************)
(* Values.  A raw connection is what rawcon hands back: its local and      *)
(* remote address (as printed by String()) and its MSS.  A raw listener is *)
(* a pointer (id) with its bound local address.  An error is its cause and *)
(* the message errors.Wrap put around it ("" when it was not wrapped).     *)
(***************************************************************************)
NoConn == [laddr |-> <<>>, raddr |-> <<>>, mss |-> 0]
NoLis == [laddr |-> <<>>, id |-> 0]
NilErr == [cause |-> "nil", wrap |-> ""]
NilRet == [h |-> "nil", err |-> NilErr]

Wrap(cause, msg) == [cause |-> cause, wrap |-> msg]

DefaultRaw ==
    [NoHTTP |-> FALSE, Host |-> <<>>, DSCP |-> 0, IgnRST |-> FALSE, Mixed |-> FALSE]

(* A caller's frame.  v holds a setter's argument, in the field it sets;   *)
(* cfg lists the configuration each raw-transport call of this call read.  *)
Idle ==
    [op |-> "idle", pc |-> "idle", addr |-> <<>>, n |-> 0, i |-> 0,
     conn |-> NoConn, lis |-> NoLis, la |-> <<>>, ra |-> <<>>, mss |-> 0,
     ret |-> NilRet, ncalls |-> 0, nput |-> 0, v |-> DefaultRaw, cfg |-> <<>>]

VARIABLES
    raw,            \* the rawcon.Raw configuration record          (sess.go:15)
    mssCache,       \* map[string]int                               (sess.go:17)
    mssCacheLock,   \* 0 when free, else the thread holding it      (sess.go:18)
    lisCache,       \* map[string]*rawcon.RAWListener               (sess.go:20)
    lisCacheLock,   \* 0 when free, else the thread holding it      (sess.go:21)
    th,             \* per caller: the call in progress and its locals
    hMSS,           \* history: per key, the last record that took mssCacheLock
    hLis,           \* history: per key, the last record that took lisCacheLock
    hDialOK,        \* history: the (local, remote) pairs of successful plain dials
    hListenOK,      \* history: the local addresses of successful plain listens
    hOn,            \* whether this behaviour records hDialOK and hListenOK
    hSet            \* history: per field, the argument of the last setter store

shared == <<raw, mssCache, mssCacheLock, lisCache, lisCacheLock>>
hist == <<hMSS, hLis, hDialOK, hListenOK, hOn, hSet>>
vars == <<raw, mssCache, mssCacheLock, lisCache, lisCacheLock, th,
          hMSS, hLis, hDialOK, hListenOK, hOn, hSet>>

EmptyMap == [k \in {} |-> 0]

MapPut(m, k, v) == [x \in (DOMAIN m) \cup {k} |-> IF x = k THEN v ELSE m[x]]

(***************************************************************************)
(* init (sess.go:28-31) and the zero values of the package variables.      *)
(***************************************************************************)
Init ==
    /\ raw = DefaultRaw
    /\ mssCache = EmptyMap
    /\ mssCacheLock = 0
    /\ lisCache = EmptyMap
    /\ lisCacheLock = 0
    /\ th = [t \in Threads |-> Idle]
    /\ hMSS = EmptyMap
    /\ hLis = EmptyMap
    /\ hDialOK = {}
    /\ hListenOK = {}
    /\ hOn = FALSE
    /\ hSet = DefaultRaw

(***************************************************************************)
(* Moving a caller.                                                        *)
(***************************************************************************)
At(t, o, p) == th[t].op = o /\ th[t].pc = p

Goto(t, p) == th' = [th EXCEPT ![t].pc = p]

Enter(t, f) == th[t].pc = "idle" /\ th' = [th EXCEPT ![t] = f]

ReturnFrom(f, h, err) == [f EXCEPT !.pc = "done", !.ret = [h |-> h, err |-> err]]

(* One call to a collaborator (raw transport, multiplexer, session engine, *)
(* net) made by the call in frame f.                                       *)
Invoke(f) == [f EXCEPT !.ncalls = @ + 1]

(* raw.DialRAW and raw.ListenRAW are methods of the package variable raw:  *)
(* they read its fields when they are called, with no lock.  A read of the *)
(* Host string that overlaps SetHost's store of another value may also see *)
(* a torn string (TornHost).                                               *)
TornHost == <<"?">>

SeenRaw ==
    {raw} \cup
    {[raw EXCEPT !.Host = TornHost] :
        u \in {x \in Threads : th[x].op = "SetHost" /\ th[x].pc = "L180"
                                  /\ th[x].v.Host # raw.Host}}

InvokeRaw(f, r) == [Invoke(f) EXCEPT !.cfg = Append(@, r)]

(* The caller takes the returned values; its goroutine may call again.     *)
Resume(t) ==
    /\ th[t].pc = "done"
    /\ th' = [th EXCEPT ![t] = Idle]
    /\ UNCHANGED <<shared, hist>>

(***************************************************************************)
(* The stub collaborators.  The raw transport dials from any local address *)
(* to the resolved remote address; a name resolves to any remote address.  *)
(* A fresh listener is a pointer no live reference holds.                  *)
(***************************************************************************)
ResolvedRemotes(raddr) == IF raddr \in RemoteAddrs THEN {raddr} ELSE RemoteAddrs

BoundLocals(laddr) ==
    IF laddr \in LocalAddrs THEN {laddr} \cap StubBinds
    ELSE IF laddr = HostAddr THEN StubBinds
    ELSE {WildAddr}

(* net.ResolveUDPAddr: fails on what net.SplitHostPort rejects; a name may *)
(* or may not resolve; a literal address resolves.                         *)
ResolveUDPAddrOutcomes(addr) ==
    IF ~SplitHostPort(addr).ok THEN {FALSE}
    ELSE IF addr = HostAddr THEN BOOLEAN
    ELSE {TRUE}

(* raw.ListenRAW cannot bind an address it cannot split.                   *)
ListenRAWOutcomes(addr) == IF ~SplitHostPort(addr).ok THEN {FALSE} ELSE BOOLEAN

RawConns(raddr) ==
    {c \in [laddr : LocalAddrs, raddr : ResolvedRemotes(raddr), mss : MSSValues] :
        <<c.laddr, c.raddr>> \in StubPairs}

MaxHandles == 3

LiveIds ==
    {lisCache[k].id : k \in DOMAIN lisCache} \cup {th[u].lis.id : u \in Threads}

RawListeners(laddr) ==
    [laddr : BoundLocals(laddr), id : (1..MaxHandles) \ LiveIds]

(***************************************************************************)
(* GetMSSByAddr (sess.go:33-42).  L35 takes the lock, L37 reads the map    *)
(* and fixes the return value (lines 37-41), L42 is the deferred Unlock.   *)
(***************************************************************************)
GetMSSByAddr_s(laddr, raddr) == laddr \o raddr

(* Lines 37-41: the value returned for the map as it stands.               *)
GetMSSByAddr_mss(laddr, raddr) ==
    LET s == GetMSSByAddr_s(laddr, raddr)
    IN  IF s \in DOMAIN mssCache THEN mssCache[s] ELSE 0

GetMSSByAddr_Call(t) ==
    /\ \E l \in LocalAddrs, r \in RemoteAddrs :
          Enter(t, [Idle EXCEPT !.op = "GetMSSByAddr", !.pc = "L35",
                                !.la = l, !.ra = r])
    /\ UNCHANGED <<shared, hist>>

(* A lookup that does not wait for the lock.                               *)
GetMSSByAddr_Lock_NoWait(t) ==
    /\ At(t, "GetMSSByAddr", "L35")
    /\ Goto(t, "L37")
    /\ UNCHANGED <<shared, hist>>

GetMSSByAddr_Lock(t) ==
    /\ At(t, "GetMSSByAddr", "L35")
    /\ mssCacheLock = 0
    /\ mssCacheLock' = t
    /\ Goto(t, "L37")
    /\ UNCHANGED <<raw, mssCache, lisCache, lisCacheLock, hist>>

GetMSSByAddr_Read(t) ==
    /\ At(t, "GetMSSByAddr", "L37")
    /\ th' = [th EXCEPT ![t].pc = "L42",
                        ![t].mss = GetMSSByAddr_mss(th[t].la, th[t].ra)]
    /\ UNCHANGED <<shared, hist>>

GetMSSByAddr_Unlock(t) ==
    /\ At(t, "GetMSSByAddr", "L42")
    /\ mssCacheLock' = 0
    /\ Goto(t, "done")
    /\ UNCHANGED <<raw, mssCache, lisCache, lisCacheLock, hist>>

(***************************************************************************)
(* putMSSByAddr (sess.go:44-49), called from DialWithOptions only.  L46    *)
(* takes the lock, L48 writes the map, L49 is the deferred Unlock.         *)
(***************************************************************************)
putMSSByAddr_s(laddr, raddr) == laddr \o raddr

putMSSByAddr_Lock(t) ==
    /\ At(t, "DialWithOptions", "L46")
    /\ mssCacheLock = 0
    /\ mssCacheLock' = t
    /\ Goto(t, "L48")
    /\ hMSS' = MapPut(hMSS, th[t].conn.laddr \o th[t].conn.raddr,
                      th[t].conn.mss)
    /\ UNCHANGED <<raw, mssCache, lisCache, lisCacheLock, hLis, hDialOK, hListenOK, hOn, hSet>>

(* A record that keeps one entry only.                                     *)
putMSSByAddr_Write_Evicts(t) ==
    /\ At(t, "DialWithOptions", "L48")
    /\ mssCache' = MapPut(EmptyMap, putMSSByAddr_s(th[t].la, th[t].ra), th[t].mss)
    /\ th' = [th EXCEPT ![t].pc = "L49", ![t].nput = @ + 1]
    /\ UNCHANGED <<raw, mssCacheLock, lisCache, lisCacheLock, hist>>

(* A record that adds to the entry instead of replacing it.                *)
putMSSByAddr_Write_Add(t) ==
    /\ At(t, "DialWithOptions", "L48")
    /\ mssCache' = MapPut(mssCache, putMSSByAddr_s(th[t].la, th[t].ra),
                          GetMSSByAddr_mss(th[t].la, th[t].ra) + th[t].mss)
    /\ th' = [th EXCEPT ![t].pc = "L49", ![t].nput = @ + 1]
    /\ UNCHANGED <<raw, mssCacheLock, lisCache, lisCacheLock, hist>>

putMSSByAddr_Write(t) ==
    /\ At(t, "DialWithOptions", "L48")
    /\ mssCache' = MapPut(mssCache, putMSSByAddr_s(th[t].la, th[t].ra), th[t].mss)
    /\ th' = [th EXCEPT ![t].pc = "L49", ![t].nput = @ + 1]
    /\ UNCHANGED <<raw, mssCacheLock, lisCache, lisCacheLock, hist>>

(* A record that returns without releasing the lock.                       *)
putMSSByAddr_Unlock_Leaks(t) ==
    /\ At(t, "DialWithOptions", "L49")
    /\ Goto(t, "L90")
    /\ UNCHANGED <<shared, hist>>

putMSSByAddr_Unlock(t) ==
    /\ At(t, "DialWithOptions", "L49")
    /\ mssCacheLock' = 0
    /\ Goto(t, "L90")
    /\ UNCHANGED <<raw, mssCache, lisCache, lisCacheLock, hist>>

(***************************************************************************)
(* GetListenerByAddr (sess.go:51-59).                                      *)
(***************************************************************************)
(* Lines 54-58: the value returned for the map as it stands.               *)
GetListenerByAddr_lis(laddr) ==
    IF laddr \in DOMAIN lisCache THEN lisCache[laddr] ELSE NoLis

GetListenerByAddr_Call(t) ==
    /\ \E l \in LocalAddrs :
          Enter(t, [Idle EXCEPT !.op = "GetListenerByAddr", !.pc = "L52", !.la = l])
    /\ UNCHANGED <<shared, hist>>

GetListenerByAddr_Lock(t) ==
    /\ At(t, "GetListenerByAddr", "L52")
    /\ lisCacheLock = 0
    /\ lisCacheLock' = t
    /\ Goto(t, "L54")
    /\ UNCHANGED <<raw, mssCache, mssCacheLock, lisCache, hist>>

GetListenerByAddr_Read(t) ==
    /\ At(t, "GetListenerByAddr", "L54")
    /\ th' = [th EXCEPT ![t].pc = "L59",
                        ![t].lis = GetListenerByAddr_lis(th[t].la)]
    /\ UNCHANGED <<shared, hist>>

GetListenerByAddr_Unlock(t) ==
    /\ At(t, "GetListenerByAddr", "L59")
    /\ lisCacheLock' = 0
    /\ Goto(t, "done")
    /\ UNCHANGED <<raw, mssCache, mssCacheLock, lisCache, hist>>

(***************************************************************************)
(* putListenerByAddr (sess.go:61-65), called from ListenWithOptions only.  *)
(***************************************************************************)
putListenerByAddr_Lock(t) ==
    /\ At(t, "ListenWithOptions", "L62")
    /\ lisCacheLock = 0
    /\ lisCacheLock' = t
    /\ Goto(t, "L64")
    /\ hLis' = MapPut(hLis, th[t].lis.laddr, th[t].lis)
    /\ UNCHANGED <<raw, mssCache, mssCacheLock, lisCache, hMSS, hDialOK, hListenOK, hOn, hSet>>

(* A record that drops the entry it finds instead of replacing it.         *)
putListenerByAddr_Write_Drops(t) ==
    /\ At(t, "ListenWithOptions", "L64")
    /\ lisCache' = IF th[t].la \in DOMAIN lisCache
                   THEN [k \in DOMAIN lisCache \ {th[t].la} |-> lisCache[k]]
                   ELSE MapPut(lisCache, th[t].la, th[t].lis)
    /\ th' = [th EXCEPT ![t].pc = "L65", ![t].nput = @ + 1]
    /\ UNCHANGED <<raw, mssCache, mssCacheLock, lisCacheLock, hist>>

putListenerByAddr_Write(t) ==
    /\ At(t, "ListenWithOptions", "L64")
    /\ lisCache' = MapPut(lisCache, th[t].la, th[t].lis)
    /\ th' = [th EXCEPT ![t].pc = "L65", ![t].nput = @ + 1]
    /\ UNCHANGED <<raw, mssCache, mssCacheLock, lisCacheLock, hist>>

putListenerByAddr_Unlock(t) ==
    /\ At(t, "ListenWithOptions", "L65")
    /\ lisCacheLock' = 0
    /\ Goto(t, "L139")
    /\ UNCHANGED <<raw, mssCache, mssCacheLock, lisCache, hist>>

(***************************************************************************)
(* DialWithOptions (sess.go:80-91).                                        *)
(***************************************************************************)
DialWithOptions_Call(t) ==
    /\ \E a \in DialAddrs :
          Enter(t, [Idle EXCEPT !.op = "DialWithOptions", !.pc = "L81", !.addr = a])
    /\ UNCHANGED <<shared, hist>>

DialWithOptions_checkAddr(t) ==
    /\ At(t, "DialWithOptions", "L81")
    /\ LET err == checkAddr(th[t].addr)
       IN  th' = [th EXCEPT ![t] =
                    IF err # "nil"
                    THEN ReturnFrom(@, "nil", Wrap(err, "checkAddr"))
                    ELSE [@ EXCEPT !.pc = "L85"]]
    /\ UNCHANGED <<shared, hist>>

(* A dial that records before it tests the error of raw.DialRAW.           *)
DialWithOptions_DialRAW_RecordsFirst(t) ==
    /\ At(t, "DialWithOptions", "L85")
    /\ \/ /\ th' = [th EXCEPT ![t] =
                      ReturnFrom(InvokeRaw(@, raw), "nil",
                                 Wrap("raw.DialRAW", "net.DialRAW"))]
          /\ mssCache' = MapPut(mssCache, th[t].addr, 0)
          /\ UNCHANGED <<raw, mssCacheLock, lisCache, lisCacheLock>>
       \/ /\ \E c \in RawConns(th[t].addr) :
                th' = [th EXCEPT ![t] =
                         [InvokeRaw(@, raw) EXCEPT !.conn = c, !.pc = "L89"]]
          /\ UNCHANGED shared
    /\ UNCHANGED hist

(* A dial that drops the error of raw.DialRAW.                             *)
DialWithOptions_DialRAW_Swallows(t) ==
    /\ At(t, "DialWithOptions", "L85")
    /\ \/ th' = [th EXCEPT ![t] = ReturnFrom(InvokeRaw(@, raw), "nil", NilErr)]
       \/ \E c \in RawConns(th[t].addr) :
             th' = [th EXCEPT ![t] =
                      [InvokeRaw(@, raw) EXCEPT !.conn = c, !.pc = "L89"]]
    /\ UNCHANGED <<shared, hist>>

DialWithOptions_DialRAW(t) ==
    /\ At(t, "DialWithOptions", "L85")
    /\ \E r \in SeenRaw :
          \/ th' = [th EXCEPT ![t] =
                      ReturnFrom(InvokeRaw(@, r), "nil",
                                 Wrap("raw.DialRAW", "net.DialRAW"))]
          \/ \E c \in RawConns(th[t].addr) :
                th' = [th EXCEPT ![t] =
                         [InvokeRaw(@, r) EXCEPT !.conn = c, !.pc = "L89"]]
    /\ UNCHANGED <<shared, hist>>

(* A dial that records under the address string the caller passed.         *)
DialWithOptions_putArgs_CallerAddr(f) ==
    [f EXCEPT !.la = f.conn.laddr, !.ra = f.addr, !.mss = f.conn.mss]

(* Line 89: the arguments handed to putMSSByAddr.                          *)
DialWithOptions_putArgs(f) ==
    [f EXCEPT !.la = f.conn.laddr, !.ra = f.conn.raddr, !.mss = f.conn.mss]

DialWithOptions_putMSSByAddr(t) ==
    /\ At(t, "DialWithOptions", "L89")
    /\ th' = [th EXCEPT ![t] = [DialWithOptions_putArgs(@) EXCEPT !.pc = "L46"]]
    /\ UNCHANGED <<shared, hist>>

(* Line 90: whatever kcp.NewConn returns is returned as it is.             *)
(* A dial that takes its record back when the session wrap fails.          *)
DialWithOptions_NewConn_RollsBack(t) ==
    /\ At(t, "DialWithOptions", "L90")
    /\ \/ /\ th' = [th EXCEPT ![t] = ReturnFrom(Invoke(@), "session", NilErr)]
          /\ hDialOK' = IF hOn
                        THEN hDialOK \cup {<<th[t].conn.laddr, th[t].conn.raddr>>}
                        ELSE hDialOK
          /\ mssCache' = mssCache
       \/ /\ th' = [th EXCEPT ![t] =
                      ReturnFrom(Invoke(@), "nil", Wrap("kcp.NewConn", ""))]
          /\ mssCache' = [k \in DOMAIN mssCache \ {putMSSByAddr_s(th[t].la, th[t].ra)}
                            |-> mssCache[k]]
          /\ UNCHANGED hDialOK
    /\ UNCHANGED <<raw, mssCacheLock, lisCache, lisCacheLock,
                   hMSS, hLis, hListenOK, hOn, hSet>>

DialWithOptions_NewConn(t) ==
    /\ At(t, "DialWithOptions", "L90")
    /\ \/ /\ th' = [th EXCEPT ![t] = ReturnFrom(Invoke(@), "session", NilErr)]
          /\ hDialOK' = IF hOn
                        THEN hDialOK \cup {<<th[t].conn.laddr, th[t].conn.raddr>>}
                        ELSE hDialOK
       \/ /\ th' = [th EXCEPT ![t] =
                      ReturnFrom(Invoke(@), "nil", Wrap("kcp.NewConn", ""))]
          /\ UNCHANGED hDialOK
    /\ UNCHANGED <<shared, hMSS, hLis, hListenOK, hOn, hSet>>

(***************************************************************************)
(* DialMulWithOptions_udp (sess.go:93-108).  mulcon.Dial runs the dialer   *)
(* (net.DialUDP, lines 98-102) itself; those dials touch nothing of this   *)
(* package, so the whole of mulcon.Dial is one step.                       *)
(***************************************************************************)
DialMulWithOptions_udp_Call(t) ==
    /\ \E a \in DialAddrs :
          Enter(t, [Idle EXCEPT !.op = "DialMulWithOptions_udp", !.pc = "L94",
                                !.addr = a])
    /\ UNCHANGED <<shared, hist>>

DialMulWithOptions_udp_Resolve(t) ==
    /\ At(t, "DialMulWithOptions_udp", "L94")
    /\ \E ok \in ResolveUDPAddrOutcomes(th[t].addr) :
          th' = [th EXCEPT ![t] =
                   IF ok THEN [Invoke(@) EXCEPT !.pc = "L103"]
                   ELSE ReturnFrom(Invoke(@), "nil", Wrap("net.ResolveUDPAddr", ""))]
    /\ UNCHANGED <<shared, hist>>

DialMulWithOptions_udp_mulconDial(t) ==
    /\ At(t, "DialMulWithOptions_udp", "L103")
    /\ \/ th' = [th EXCEPT ![t] = [Invoke(@) EXCEPT !.pc = "L107"]]
       \/ th' = [th EXCEPT ![t] =
                   ReturnFrom(Invoke(@), "nil", Wrap("mulcon.Dial", "DialMulWithOptions"))]
    /\ UNCHANGED <<shared, hist>>

DialMulWithOptions_udp_NewConn(t) ==
    /\ At(t, "DialMulWithOptions_udp", "L107")
    /\ \/ th' = [th EXCEPT ![t] = ReturnFrom(Invoke(@), "session", NilErr)]
       \/ th' = [th EXCEPT ![t] = ReturnFrom(Invoke(@), "nil", Wrap("kcp.NewConn", ""))]
    /\ UNCHANGED <<shared, hist>>

(***************************************************************************)
(* DialMulWithOptions (sess.go:110-125).  mulcon.Dial (line 120) invokes   *)
(* the dialer of lines 115-119 once per physical connection; each          *)
(* invocation is a raw.DialRAW of its own (pc L116, counted in i).  A      *)
(* failing dialer fails mulcon.Dial; when all mulconn dials are made,      *)
(* mulcon.Dial returns (pc L121) the logical connection or an error.       *)
(***************************************************************************)
DialMulWithOptions_Call(t) ==
    /\ \E a \in DialAddrs, n \in 1..MaxMulConn :
          Enter(t, [Idle EXCEPT !.op = "DialMulWithOptions", !.pc = "L111",
                                !.addr = a, !.n = n])
    /\ UNCHANGED <<shared, hist>>

(* A multiplexed dial that does not validate its address.                  *)
DialMulWithOptions_checkAddr_Skipped(t) ==
    /\ At(t, "DialMulWithOptions", "L111")
    /\ Goto(t, "L120")
    /\ UNCHANGED <<shared, hist>>

DialMulWithOptions_checkAddr(t) ==
    /\ At(t, "DialMulWithOptions", "L111")
    /\ LET err == checkAddr(th[t].addr)
       IN  th' = [th EXCEPT ![t] =
                    IF err # "nil"
                    THEN ReturnFrom(@, "nil", Wrap(err, "checkAddr"))
                    ELSE [@ EXCEPT !.pc = "L120"]]
    /\ UNCHANGED <<shared, hist>>

DialMulWithOptions_mulconDial(t) ==
    /\ At(t, "DialMulWithOptions", "L120")
    /\ th' = [th EXCEPT ![t] = [Invoke(@) EXCEPT !.pc = "L116", !.i = 0]]
    /\ UNCHANGED <<shared, hist>>

(* A dial function that gives every physical connection the configuration *)
(* the first one read.                                                     *)
DialMulWithOptions_dialer_CopiesOnce(t) ==
    /\ At(t, "DialMulWithOptions", "L116")
    /\ LET r == IF th[t].cfg = <<>> THEN raw ELSE th[t].cfg[1]
       IN  \/ \E c \in RawConns(th[t].addr) :
                 th' = [th EXCEPT ![t] =
                          [InvokeRaw(@, r) EXCEPT !.i = @ + 1,
                                                  !.pc = IF th[t].i + 1 = th[t].n
                                                         THEN "L121" ELSE "L116"]]
           \/ th' = [th EXCEPT ![t] =
                       ReturnFrom(InvokeRaw(@, r), "nil",
                                  Wrap("mulcon.Dial", "DialMulWithOptions"))]
    /\ UNCHANGED <<shared, hist>>

(* A dial function that records the MSS of each physical connection.      *)
DialMulWithOptions_dialer_Records(t) ==
    /\ At(t, "DialMulWithOptions", "L116")
    /\ \/ \E c \in RawConns(th[t].addr) :
             /\ th' = [th EXCEPT ![t] =
                         [InvokeRaw(@, raw) EXCEPT !.i = @ + 1, !.nput = @ + 1,
                                                   !.pc = IF th[t].i + 1 = th[t].n
                                                          THEN "L121" ELSE "L116"]]
             /\ mssCache' = MapPut(mssCache, putMSSByAddr_s(c.laddr, c.raddr), c.mss)
       \/ /\ th' = [th EXCEPT ![t] =
                      ReturnFrom(InvokeRaw(@, raw), "nil",
                                 Wrap("mulcon.Dial", "DialMulWithOptions"))]
          /\ mssCache' = mssCache
    /\ UNCHANGED <<raw, mssCacheLock, lisCache, lisCacheLock, hist>>

DialMulWithOptions_dialer(t) ==
    /\ At(t, "DialMulWithOptions", "L116")
    /\ \E r \in SeenRaw :
          \/ \E c \in RawConns(th[t].addr) :
                th' = [th EXCEPT ![t] =
                         [InvokeRaw(@, r) EXCEPT !.i = @ + 1,
                                                 !.pc = IF th[t].i + 1 = th[t].n
                                                        THEN "L121" ELSE "L116"]]
          \/ th' = [th EXCEPT ![t] =
                      ReturnFrom(InvokeRaw(@, r), "nil",
                                 Wrap("mulcon.Dial", "DialMulWithOptions"))]
    /\ UNCHANGED <<shared, hist>>

DialMulWithOptions_mulconDialReturn(t) ==
    /\ At(t, "DialMulWithOptions", "L121")
    /\ \/ th' = [th EXCEPT ![t].pc = "L124"]
       \/ th' = [th EXCEPT ![t] =
                   ReturnFrom(@, "nil", Wrap("mulcon.Dial", "DialMulWithOptions"))]
    /\ UNCHANGED <<shared, hist>>

DialMulWithOptions_NewConn(t) ==
    /\ At(t, "DialMulWithOptions", "L124")
    /\ \/ th' = [th EXCEPT ![t] = ReturnFrom(Invoke(@), "session", NilErr)]
       \/ th' = [th EXCEPT ![t] = ReturnFrom(Invoke(@), "nil", Wrap("kcp.NewConn", ""))]
    /\ UNCHANGED <<shared, hist>>

(***************************************************************************)
(* ListenWithOptions (sess.go:129-140).                                    *)
(***************************************************************************)
ListenWithOptions_Call(t) ==
    /\ \E a \in ListenAddrs :
          Enter(t, [Idle EXCEPT !.op = "ListenWithOptions", !.pc = "L130", !.addr = a])
    /\ UNCHANGED <<shared, hist>>

ListenWithOptions_checkAddr(t) ==
    /\ At(t, "ListenWithOptions", "L130")
    /\ LET err == checkAddr(th[t].addr)
       IN  th' = [th EXCEPT ![t] =
                    IF err # "nil"
                    THEN ReturnFrom(@, "nil", Wrap(err, "checkAddr"))
                    ELSE [@ EXCEPT !.pc = "L134"]]
    /\ UNCHANGED <<shared, hist>>

ListenWithOptions_ListenRAW(t) ==
    /\ At(t, "ListenWithOptions", "L134")
    /\ \E r \in SeenRaw :
          \/ th' = [th EXCEPT ![t] =
                      ReturnFrom(InvokeRaw(@, r), "nil",
                                 Wrap("raw.ListenRAW", "net.ListenRAW"))]
          \/ \E l \in RawListeners(th[t].addr) :
                th' = [th EXCEPT ![t] =
                         [InvokeRaw(@, r) EXCEPT !.lis = l, !.pc = "L138"]]
    /\ UNCHANGED <<shared, hist>>

(* A listen that records under the address string the caller passed.       *)
ListenWithOptions_putArgs_CallerAddr(f) == [f EXCEPT !.la = f.addr]

(* Line 138: the arguments handed to putListenerByAddr.                    *)
ListenWithOptions_putArgs(f) == [f EXCEPT !.la = f.lis.laddr]

ListenWithOptions_putListenerByAddr(t) ==
    /\ At(t, "ListenWithOptions", "L138")
    /\ th' = [th EXCEPT ![t] = [ListenWithOptions_putArgs(@) EXCEPT !.pc = "L62"]]
    /\ UNCHANGED <<shared, hist>>

(* Line 139: whatever kcp.ServeConn returns is returned as it is.          *)
ListenWithOptions_ServeConn(t) ==
    /\ At(t, "ListenWithOptions", "L139")
    /\ \/ /\ th' = [th EXCEPT ![t] = ReturnFrom(Invoke(@), "listener", NilErr)]
          /\ hListenOK' = IF hOn THEN hListenOK \cup {th[t].lis.laddr} ELSE hListenOK
       \/ /\ th' = [th EXCEPT ![t] =
                      ReturnFrom(Invoke(@), "nil", Wrap("kcp.ServeConn", ""))]
          /\ UNCHANGED hListenOK
    /\ UNCHANGED <<shared, hMSS, hLis, hDialOK, hOn, hSet>>

(***************************************************************************)
(* ListenMulWithOptions_udp (sess.go:142-158).                             *)
(***************************************************************************)
ListenMulWithOptions_udp_Call(t) ==
    /\ \E a \in ListenAddrs :
          Enter(t, [Idle EXCEPT !.op = "ListenMulWithOptions_udp", !.pc = "L143",
                                !.addr = a])
    /\ UNCHANGED <<shared, hist>>

ListenMulWithOptions_udp_Resolve(t) ==
    /\ At(t, "ListenMulWithOptions_udp", "L143")
    /\ \E ok \in ResolveUDPAddrOutcomes(th[t].addr) :
          th' = [th EXCEPT ![t] =
                   IF ok THEN [Invoke(@) EXCEPT !.pc = "L147"]
                   ELSE ReturnFrom(Invoke(@), "nil", Wrap("net.ResolveUDPAddr", ""))]
    /\ UNCHANGED <<shared, hist>>

ListenMulWithOptions_udp_ListenUDP(t) ==
    /\ At(t, "ListenMulWithOptions_udp", "L147")
    /\ \/ th' = [th EXCEPT ![t] = [Invoke(@) EXCEPT !.pc = "L153"]]
       \/ th' = [th EXCEPT ![t] =
                   ReturnFrom(Invoke(@), "nil", Wrap("net.ListenUDP", "net.ListenRAW"))]
    /\ UNCHANGED <<shared, hist>>

ListenMulWithOptions_udp_mulconListen(t) ==
    /\ At(t, "ListenMulWithOptions_udp", "L153")
    /\ \/ th' = [th EXCEPT ![t] = [Invoke(@) EXCEPT !.pc = "L157"]]
       \/ th' = [th EXCEPT ![t] =
                   ReturnFrom(Invoke(@), "nil",
                              Wrap("mulcon.Listen", "ListenMulWithOptions"))]
    /\ UNCHANGED <<shared, hist>>

ListenMulWithOptions_udp_ServeConn(t) ==
    /\ At(t, "ListenMulWithOptions_udp", "L157")
    /\ \/ th' = [th EXCEPT ![t] = ReturnFrom(Invoke(@), "listener", NilErr)]
       \/ th' = [th EXCEPT ![t] = ReturnFrom(Invoke(@), "nil", Wrap("kcp.ServeConn", ""))]
    /\ UNCHANGED <<shared, hist>>

(***************************************************************************)
(* ListenMulWithOptions (sess.go:160-171).  No checkAddr.                  *)
(***************************************************************************)
ListenMulWithOptions_Call(t) ==
    /\ \E a \in ListenAddrs :
          Enter(t, [Idle EXCEPT !.op = "ListenMulWithOptions", !.pc = "L161",
                                !.addr = a])
    /\ UNCHANGED <<shared, hist>>

(* A multiplexed listen that validates its address first.                  *)
ListenMulWithOptions_ListenRAW_Validates(t) ==
    /\ At(t, "ListenMulWithOptions", "L161")
    /\ IF checkAddr(th[t].addr) # "nil"
       THEN th' = [th EXCEPT ![t] =
                     ReturnFrom(@, "nil", Wrap(checkAddr(th[t].addr), "checkAddr"))]
       ELSE \/ th' = [th EXCEPT ![t] =
                        ReturnFrom(InvokeRaw(@, raw), "nil",
                                   Wrap("raw.ListenRAW", "net.ListenRAW"))]
            \/ \E l \in RawListeners(th[t].addr) :
                  th' = [th EXCEPT ![t] =
                           [InvokeRaw(@, raw) EXCEPT !.lis = l, !.pc = "L166"]]
    /\ UNCHANGED <<shared, hist>>

ListenMulWithOptions_ListenRAW(t) ==
    /\ At(t, "ListenMulWithOptions", "L161")
    /\ \E r \in SeenRaw :
          \/ th' = [th EXCEPT ![t] =
                      ReturnFrom(InvokeRaw(@, r), "nil",
                                 Wrap("raw.ListenRAW", "net.ListenRAW"))]
          \/ /\ TRUE \in ListenRAWOutcomes(th[t].addr)
             /\ \E l \in RawListeners(th[t].addr) :
                   th' = [th EXCEPT ![t] =
                            [InvokeRaw(@, r) EXCEPT !.lis = l, !.pc = "L166"]]
    /\ UNCHANGED <<shared, hist>>

ListenMulWithOptions_mulconListen(t) ==
    /\ At(t, "ListenMulWithOptions", "L166")
    /\ \/ th' = [th EXCEPT ![t] = [Invoke(@) EXCEPT !.pc = "L170"]]
       \/ th' = [th EXCEPT ![t] =
                   ReturnFrom(Invoke(@), "nil",
                              Wrap("mulcon.Listen", "ListenMulWithOptions"))]
    /\ UNCHANGED <<shared, hist>>

ListenMulWithOptions_ServeConn(t) ==
    /\ At(t, "ListenMulWithOptions", "L170")
    /\ \/ th' = [th EXCEPT ![t] = ReturnFrom(Invoke(@), "listener", NilErr)]
       \/ th' = [th EXCEPT ![t] = ReturnFrom(Invoke(@), "nil", Wrap("kcp.ServeConn", ""))]
    /\ UNCHANGED <<shared, hist>>

(***************************************************************************)
(* The setters (sess.go:173-196).  Each is one unsynchronised store of its *)
(* argument into one field of raw: the caller enters with v (X_Call) and   *)
(* the store is the function's only statement (X).                         *)
(***************************************************************************)
HostValues == {<<>>, <<"h">>}
DSCPValues == {0, 46}

SetterCall(t, o, p, v) ==
    /\ Enter(t, [Idle EXCEPT !.op = o, !.pc = p, !.v = v])
    /\ UNCHANGED <<shared, hist>>

SetterStore(t, o, p, r, h) ==
    /\ At(t, o, p)
    /\ raw' = r
    /\ hSet' = h
    /\ th' = [th EXCEPT ![t] = ReturnFrom(@, "nil", NilErr)]
    /\ UNCHANGED <<mssCache, mssCacheLock, lisCache, lisCacheLock,
                   hMSS, hLis, hDialOK, hListenOK, hOn>>

SetNoHTTP_Call(t) ==
    \E v \in BOOLEAN : SetterCall(t, "SetNoHTTP", "L175", [DefaultRaw EXCEPT !.NoHTTP = v])

(* A setter that stores into the wrong field.                              *)
SetNoHTTP_WrongField(t) ==
    SetterStore(t, "SetNoHTTP", "L175", [raw EXCEPT !.Mixed = th[t].v.NoHTTP],
                [hSet EXCEPT !.NoHTTP = th[t].v.NoHTTP])

SetNoHTTP(t) ==
    SetterStore(t, "SetNoHTTP", "L175", [raw EXCEPT !.NoHTTP = th[t].v.NoHTTP],
                [hSet EXCEPT !.NoHTTP = th[t].v.NoHTTP])

SetHost_Call(t) ==
    \E v \in HostValues : SetterCall(t, "SetHost", "L180", [DefaultRaw EXCEPT !.Host = v])

SetHost(t) ==
    SetterStore(t, "SetHost", "L180", [raw EXCEPT !.Host = th[t].v.Host],
                [hSet EXCEPT !.Host = th[t].v.Host])

SetDSCP_Call(t) ==
    \E v \in DSCPValues : SetterCall(t, "SetDSCP", "L185", [DefaultRaw EXCEPT !.DSCP = v])

SetDSCP(t) ==
    SetterStore(t, "SetDSCP", "L185", [raw EXCEPT !.DSCP = th[t].v.DSCP],
                [hSet EXCEPT !.DSCP = th[t].v.DSCP])

SetIgnRST_Call(t) ==
    \E v \in BOOLEAN : SetterCall(t, "SetIgnRST", "L190", [DefaultRaw EXCEPT !.IgnRST = v])

SetIgnRST(t) ==
    SetterStore(t, "SetIgnRST", "L190", [raw EXCEPT !.IgnRST = th[t].v.IgnRST],
                [hSet EXCEPT !.IgnRST = th[t].v.IgnRST])

SetMixed_Call(t) ==
    \E v \in BOOLEAN : SetterCall(t, "SetMixed", "L195", [DefaultRaw EXCEPT !.Mixed = v])

SetMixed(t) ==
    SetterStore(t, "SetMixed", "L195", [raw EXCEPT !.Mixed = th[t].v.Mixed],
                [hSet EXCEPT !.Mixed = th[t].v.Mixed])

(***************************************************************************)
(* Specifications.                                                         *)
(***************************************************************************)
DialSteps(t) ==
    \/ DialWithOptions_checkAddr(t) \/ DialWithOptions_DialRAW(t)
    \/ DialWithOptions_putMSSByAddr(t)
    \/ putMSSByAddr_Lock(t) \/ putMSSByAddr_Write(t) \/ putMSSByAddr_Unlock(t)
    \/ DialWithOptions_NewConn(t)

MSSSteps(t) ==
    \/ GetMSSByAddr_Lock(t) \/ GetMSSByAddr_Read(t) \/ GetMSSByAddr_Unlock(t)
    \/ DialSteps(t)

LisSteps(t) ==
    \/ GetListenerByAddr_Lock(t) \/ GetListenerByAddr_Read(t)
    \/ GetListenerByAddr_Unlock(t)
    \/ ListenWithOptions_checkAddr(t) \/ ListenWithOptions_ListenRAW(t)
    \/ ListenWithOptions_putListenerByAddr(t)
    \/ putListenerByAddr_Lock(t) \/ putListenerByAddr_Write(t)
    \/ putListenerByAddr_Unlock(t)
    \/ ListenWithOptions_ServeConn(t)

MulSteps(t) ==
    \/ DialMulWithOptions_udp_Resolve(t) \/ DialMulWithOptions_udp_mulconDial(t)
    \/ DialMulWithOptions_udp_NewConn(t)
    \/ DialMulWithOptions_checkAddr(t) \/ DialMulWithOptions_mulconDial(t)
    \/ DialMulWithOptions_dialer(t) \/ DialMulWithOptions_mulconDialReturn(t)
    \/ DialMulWithOptions_NewConn(t)
    \/ ListenMulWithOptions_udp_Resolve(t) \/ ListenMulWithOptions_udp_ListenUDP(t)
    \/ ListenMulWithOptions_udp_mulconListen(t)
    \/ ListenMulWithOptions_udp_ServeConn(t)
    \/ ListenMulWithOptions_ListenRAW(t) \/ ListenMulWithOptions_mulconListen(t)
    \/ ListenMulWithOptions_ServeConn(t)

Calls(t) ==
    \/ GetMSSByAddr_Call(t) \/ DialWithOptions_Call(t)
    \/ GetListenerByAddr_Call(t) \/ ListenWithOptions_Call(t)
    \/ DialMulWithOptions_udp_Call(t) \/ DialMulWithOptions_Call(t)
    \/ ListenMulWithOptions_udp_Call(t) \/ ListenMulWithOptions_Call(t)

SetterCalls(t) ==
    \/ SetNoHTTP_Call(t) \/ SetHost_Call(t) \/ SetDSCP_Call(t)
    \/ SetIgnRST_Call(t) \/ SetMixed_Call(t)

Setters(t) ==
    SetNoHTTP(t) \/ SetHost(t) \/ SetDSCP(t) \/ SetIgnRST(t) \/ SetMixed(t)

(* One call at a time: calls meet only in the two caches and in raw, so a  *)
(* property of one call's own control flow is decided without interleaving.*)
Quiet == \A u \in Threads : th[u].pc = "idle"

Next ==
    \E t \in Threads :
        \/ Quiet /\ Calls(t)
        \/ MSSSteps(t) \/ LisSteps(t) \/ MulSteps(t)
        \/ Resume(t)

Spec == Init /\ [][Next]_vars

(* Concurrent callers of the four cache operations.                        *)
NextCache ==
    \E t \in Threads :
        \/ GetMSSByAddr_Call(t) \/ DialWithOptions_Call(t)
        \/ GetListenerByAddr_Call(t) \/ ListenWithOptions_Call(t)
        \/ MSSSteps(t) \/ LisSteps(t)
        \/ Resume(t)

SpecCache == Init /\ [][NextCache]_vars

(* Concurrent plain dials and MSS lookups, with the history of successes.  *)
InitH ==
    /\ raw = DefaultRaw
    /\ mssCache = EmptyMap
    /\ mssCacheLock = 0
    /\ lisCache = EmptyMap
    /\ lisCacheLock = 0
    /\ th = [t \in Threads |-> Idle]
    /\ hMSS = EmptyMap
    /\ hLis = EmptyMap
    /\ hDialOK = {}
    /\ hListenOK = {}
    /\ hOn = TRUE
    /\ hSet = DefaultRaw

NextMSS ==
    \E t \in Threads :
        GetMSSByAddr_Call(t) \/ DialWithOptions_Call(t) \/ MSSSteps(t) \/ Resume(t)

SpecMSS == InitH /\ [][NextMSS]_vars

(* Concurrent plain listens and listener lookups, likewise.                *)
NextLis ==
    \E t \in Threads :
        GetListenerByAddr_Call(t) \/ ListenWithOptions_Call(t) \/ LisSteps(t)
        \/ Resume(t)

SpecLis == InitH /\ [][NextLis]_vars

(* Concurrent plain dials, one per caller and nothing else.                *)
NextDials == \E t \in Threads : DialWithOptions_Call(t) \/ DialSteps(t)

SpecDials == Init /\ [][NextDials]_vars

(* Every operation of the package, one call at a time: the six entry      *)
(* points, the two lookups and the five setters.                           *)
NextAll ==
    \E t \in Threads :
        \/ Quiet /\ Calls(t)
        \/ Quiet /\ SetterCalls(t)
        \/ MSSSteps(t) \/ LisSteps(t) \/ MulSteps(t) \/ Setters(t)
        \/ Resume(t)

SpecAll == Init /\ [][NextAll]_vars

(* The entry points and lookups with one of the setters, one call at a    *)
(* time, and the history of successful plain dials and listens.            *)
NextOps ==
    \E t \in Threads :
        \/ Quiet /\ Calls(t)
        \/ Quiet /\ SetNoHTTP_Call(t)
        \/ MSSSteps(t) \/ LisSteps(t) \/ MulSteps(t) \/ SetNoHTTP(t)
        \/ Resume(t)

SpecOpsH == InitH /\ [][NextOps]_vars

(* Setters running concurrently with the entry points that reach the raw   *)
(* transport without touching a cache.                                     *)
NextCfg ==
    \E t \in Threads :
        \/ DialMulWithOptions_Call(t)
        \/ DialMulWithOptions_checkAddr(t) \/ DialMulWithOptions_mulconDial(t)
        \/ DialMulWithOptions_dialer(t) \/ DialMulWithOptions_mulconDialReturn(t)
        \/ DialMulWithOptions_NewConn(t)
        \/ ListenMulWithOptions_Call(t)
        \/ ListenMulWithOptions_ListenRAW(t) \/ ListenMulWithOptions_mulconListen(t)
        \/ ListenMulWithOptions_ServeConn(t)
        \/ SetNoHTTP_Call(t) \/ SetNoHTTP(t)
        \/ SetHost_Call(t) \/ SetHost(t)
        \/ Resume(t)

SpecCfg == Init /\ [][NextCfg]_vars

(* The validator on every short string: a caller stands at the checkAddr   *)
(* of one of the three validating entry points with any address string.    *)
AddrStrings ==
    SeqsUpTo({"0", ".", ":"}, MaxLen) \cup SeqsUpTo({"[", "]", ":", "0", "h"}, MaxBracketLen)

ValidatingEntry == {<<"DialWithOptions", "L81">>, <<"DialMulWithOptions", "L111">>,
                    <<"ListenWithOptions", "L130">>}

InitAddr ==
    /\ raw = DefaultRaw
    /\ mssCache = EmptyMap
    /\ mssCacheLock = 0
    /\ lisCache = EmptyMap
    /\ lisCacheLock = 0
    /\ \E a \in AddrStrings, e \in ValidatingEntry :
          th = [t \in Threads |->
                  IF t = 1
                  THEN [Idle EXCEPT !.op = e[1], !.pc = e[2], !.addr = a, !.n = 1]
                  ELSE Idle]
    /\ hMSS = EmptyMap
    /\ hLis = EmptyMap
    /\ hDialOK = {}
    /\ hListenOK = {}
    /\ hOn = FALSE
    /\ hSet = DefaultRaw

NextAddr ==
    \E t \in Threads :
        \/ DialWithOptions_checkAddr(t)
        \/ DialMulWithOptions_checkAddr(t)
        \/ ListenWithOptions_checkAddr(t)

SpecAddr == InitAddr /\ [][NextAddr]_vars

(***************************************************************************)
(* The claims.                                                             *)
(***************************************************************************)
AllPairs == LocalAddrs \X RemoteAddrs

DialOK(t) ==
    At(t, "DialWithOptions", "done") /\ th[t].ret.err = NilErr

ListenOK(t) ==
    At(t, "ListenWithOptions", "done") /\ th[t].ret.err = NilErr

(* A lookup waits for the lock, so the value it returns is read off when   *)
(* the lock is free; and a claim about the dials that have succeeded is    *)
(* read off when no plain dial (listen) that has recorded is still on its  *)
(* way to the session engine.                                              *)
MSSSettled ==
    mssCacheLock = 0 /\ \A t \in Threads : ~At(t, "DialWithOptions", "L90")

LisSettled ==
    lisCacheLock = 0 /\ \A t \in Threads : ~At(t, "ListenWithOptions", "L139")

(* C1 as claimed: once a plain dial whose connection is (L, R, m) has      *)
(* succeeded, GetMSSByAddr(L, R) returns m (for as long as the last record *)
(* under its key is m), and GetMSSByAddr(L, R) returns 0 for every pair    *)
(* (L, R) for which no plain dial has yet succeeded.                       *)
C1_AsClaimed ==
    MSSSettled =>
        /\ \A t \in Threads :
              DialOK(t) =>
                  LET k == th[t].conn.laddr \o th[t].conn.raddr
                  IN  /\ k \in DOMAIN hMSS
                      /\ hMSS[k] = th[t].conn.mss =>
                            GetMSSByAddr_mss(th[t].conn.laddr, th[t].conn.raddr)
                                = th[t].conn.mss
        /\ \A p \in AllPairs \ hDialOK : GetMSSByAddr_mss(p[1], p[2]) = 0

(* C1 as amended: once a plain dial whose connection is (L, R, m) has      *)
(* succeeded, a record exists under the string L+R and GetMSSByAddr(L, R)  *)
(* returns m for as long as the last record under that string is m; and    *)
(* GetMSSByAddr(L, R) returns 0 for every pair (L, R) under whose string   *)
(* L+R no plain dial has recorded a connection yet.  The record is keyed   *)
(* by the connection's own addresses, not by the caller's address string.  *)
C1_MSSAfterDial ==
    mssCacheLock = 0 =>
        /\ \A t \in Threads :
              DialOK(t) =>
                  LET k == th[t].conn.laddr \o th[t].conn.raddr
                  IN  /\ k \in DOMAIN hMSS
                      /\ hMSS[k] = th[t].conn.mss =>
                            GetMSSByAddr_mss(th[t].conn.laddr, th[t].conn.raddr)
                                = th[t].conn.mss
        /\ \A p \in AllPairs :
              (p[1] \o p[2]) \notin DOMAIN hMSS => GetMSSByAddr_mss(p[1], p[2]) = 0

(* A dial by name has succeeded, its MSS is returned for the connection's  *)
(* own pair, and another pair still has none.                              *)
C1_Witness ==
    /\ mssCacheLock = 0
    /\ \E t \in Threads :
          /\ DialOK(t)
          /\ th[t].addr = HostAddr
          /\ GetMSSByAddr_mss(th[t].conn.laddr, th[t].conn.raddr) = th[t].conn.mss
    /\ \E p \in AllPairs : GetMSSByAddr_mss(p[1], p[2]) = 0

(* C2 as claimed: once a plain listen whose listener is bound to A has     *)
(* succeeded, GetListenerByAddr(A) returns that listener, and              *)
(* GetListenerByAddr(A) returns nil for every address on which no plain    *)
(* listen has ever succeeded (A being the address the listener is bound   *)
(* to, and the listener being returned for as long as the last record      *)
(* under A is that listener).                                              *)
C2_AsClaimed ==
    LisSettled =>
        /\ \A t \in Threads :
              ListenOK(t) =>
                  /\ th[t].lis.laddr \in DOMAIN hLis
                  /\ hLis[th[t].lis.laddr] = th[t].lis =>
                        GetListenerByAddr_lis(th[t].lis.laddr) = th[t].lis
        /\ \A a \in LocalAddrs \ hListenOK : GetListenerByAddr_lis(a) = NoLis

(* C2 as amended: once a plain listen whose listener h is bound to A has   *)
(* succeeded, a record exists under A and GetListenerByAddr(A) returns h   *)
(* for as long as the last record under A is h; and GetListenerByAddr(A)   *)
(* returns nil for every address A under which no plain listen has         *)
(* recorded a listener yet.  The key is the listener's bound address.      *)
C2_ListenerAfterListen ==
    lisCacheLock = 0 =>
        /\ \A t \in Threads :
              ListenOK(t) =>
                  /\ th[t].lis.laddr \in DOMAIN hLis
                  /\ hLis[th[t].lis.laddr] = th[t].lis =>
                        GetListenerByAddr_lis(th[t].lis.laddr) = th[t].lis
        /\ \A a \in LocalAddrs :
              a \notin DOMAIN hLis => GetListenerByAddr_lis(a) = NoLis

(* A listen by name has succeeded, its listener is returned for the bound  *)
(* address, and an address never bound has none.                           *)
C2_Witness ==
    /\ lisCacheLock = 0
    /\ \E t \in Threads :
          /\ ListenOK(t)
          /\ th[t].addr = HostAddr
          /\ GetListenerByAddr_lis(th[t].lis.laddr) = th[t].lis
    /\ \E a \in LocalAddrs : GetListenerByAddr_lis(a) = NoLis

(* What "host:port" means, stated without the parser: either one colon    *)
(* with no other colon and no bracket around it, the host before it; or    *)
(* "[host]:port" with no other bracket and no colon in the port.           *)
PlainForm(a, i) ==
    /\ a[i] = ":"
    /\ \A j \in 1..Len(a) : j # i => a[j] \notin {":", "[", "]"}

BracketForm(a, e) ==
    /\ Len(a) > e
    /\ a[1] = "[" /\ a[e] = "]" /\ a[e + 1] = ":"
    /\ \A j \in 2..Len(a) : a[j] # "["
    /\ \A j \in 1..Len(a) : j # e => a[j] # "]"
    /\ \A j \in (e + 2)..Len(a) : a[j] # ":"

HostsOf(a) ==
    {SubSeq(a, 1, i - 1) : i \in {j \in 1..Len(a) : PlainForm(a, j)}}
        \cup {SubSeq(a, 2, e - 1) : e \in {j \in 2..Len(a) : BracketForm(a, j)}}

Validated(t) ==
    \E e \in ValidatingEntry : th[t].op = e[1] /\ th[t].pc # e[2]

InvalidAddress == {"SplitHostPort", "EmptyHost", "ZeroHost"}

(* C3: checkAddr fails, with an InvalidAddress error, exactly when the     *)
(* string cannot be split into host and port, the host is empty or the     *)
(* host is 0.0.0.0, succeeds on every other string, and changes neither    *)
(* the caches nor the configuration record.                                *)
C3_checkAddr ==
    \A t \in Threads :
        Validated(t) =>
            LET a == th[t].addr
                bad == HostsOf(a) = {} \/ <<>> \in HostsOf(a) \/ ZeroHost \in HostsOf(a)
                failed == th[t].pc = "done"
            IN  /\ failed <=> bad
                /\ failed => /\ th[t].ret.err.cause \in InvalidAddress
                             /\ th[t].ret.err.wrap = "checkAddr"
                /\ HostsOf(a) = {} <=> th[t].ret.err.cause = "SplitHostPort"
                /\ mssCache = EmptyMap /\ lisCache = EmptyMap
                /\ mssCacheLock = 0 /\ lisCacheLock = 0
                /\ raw = DefaultRaw

(* The validator has rejected 0.0.0.0:0 for its host.                      *)
C3_Witness ==
    \E t \in Threads :
        /\ Validated(t)
        /\ th[t].addr = ZeroHost \o <<":", "0">>
        /\ th[t].pc = "done"
        /\ th[t].ret.err.cause = "ZeroHost"

Validating == {"DialWithOptions", "DialMulWithOptions", "ListenWithOptions"}

EntryPoints ==
    Validating \cup {"DialMulWithOptions_udp", "ListenMulWithOptions_udp",
                     "ListenMulWithOptions"}

(* C4: a validating entry point called with a malformed address, an empty  *)
(* host or host 0.0.0.0 never reaches a collaborator: the call has made no *)
(* collaborator invocation wherever it stands, and it returns nil with the *)
(* validator's error wrapped as "checkAddr".                               *)
C4_NoCallBeforeValidation ==
    \A t \in Threads :
        (th[t].op \in Validating /\ th[t].addr \in BadAddrs) =>
            /\ th[t].ncalls = 0
            /\ th[t].pc \in {"L81", "L111", "L130", "done"}
            /\ th[t].pc = "done" =>
                  /\ th[t].ret.h = "nil"
                  /\ th[t].ret.err.cause \in InvalidAddress
                  /\ th[t].ret.err.wrap = "checkAddr"

(* A multiplexed dial to 0.0.0.0:5 has been rejected with no invocation.   *)
C4_Witness ==
    \E t \in Threads :
        /\ At(t, "DialMulWithOptions", "done")
        /\ th[t].addr = WildAddr
        /\ th[t].ret.err = Wrap("ZeroHost", "checkAddr")
        /\ th[t].ncalls = 0

EarlyFailure == InvalidAddress \cup {"raw.DialRAW"}

(* C5: the step by which a plain dial returns a validation error or the    *)
(* error of raw.DialRAW leaves the MSS cache as it was, and the call has   *)
(* written nothing to it before.                                           *)
C5_NoRecordOnEarlyFailure ==
    [][\A t \in Threads :
          (/\ th[t].op = "DialWithOptions"
           /\ th[t].pc # "done"
           /\ th'[t].pc = "done"
           /\ th'[t].ret.err.cause \in EarlyFailure)
          => (mssCache' = mssCache /\ th[t].nput = 0)]_vars

(* A plain dial has failed at raw.DialRAW beside an entry made earlier.    *)
C5_Witness ==
    \E t \in Threads :
        /\ At(t, "DialWithOptions", "done")
        /\ th[t].ret.err.cause = "raw.DialRAW"
        /\ th[t].nput = 0
        /\ mssCache # EmptyMap

(* C6 as claimed: when every caller's plain dial has succeeded and their   *)
(* (local, remote) pairs are pairwise distinct, GetMSSByAddr returns for   *)
(* each pair the MSS of that pair's own connection.                        *)
C6_AsClaimed ==
    (/\ \A t \in Threads : DialOK(t)
     /\ \A t, u \in Threads :
           t # u => <<th[t].conn.laddr, th[t].conn.raddr>>
                        # <<th[u].conn.laddr, th[u].conn.raddr>>)
    => \A t \in Threads :
          GetMSSByAddr_mss(th[t].conn.laddr, th[t].conn.raddr) = th[t].conn.mss

MapGet(m, k, none) == IF k \in DOMAIN m THEN m[k] ELSE none

(* C7: each cache holds, whenever its lock is free, exactly the last       *)
(* record per key in the order the records took the lock; and a lookup     *)
(* that has read (and still holds the lock) has read the value of the last *)
(* record for its key that took the lock before it, 0 or nil if none.      *)
C7_LastWriterWins ==
    /\ mssCacheLock = 0 => mssCache = hMSS
    /\ lisCacheLock = 0 => lisCache = hLis
    /\ \A t \in Threads :
          At(t, "GetMSSByAddr", "L42") =>
              th[t].mss = MapGet(hMSS, th[t].la \o th[t].ra, 0)
    /\ \A t \in Threads :
          At(t, "GetListenerByAddr", "L59") =>
              th[t].lis = MapGet(hLis, th[t].la, NoLis)

(* Two plain dials in flight have both recorded the same pair with         *)
(* different MSS, and the cache holds the one that took the lock last.     *)
C7_Witness ==
    \E t, u \in Threads :
        /\ t # u
        /\ At(t, "DialWithOptions", "L90") /\ At(u, "DialWithOptions", "L90")
        /\ th[t].conn.laddr = th[u].conn.laddr
        /\ th[t].conn.raddr = th[u].conn.raddr
        /\ th[t].conn.mss # th[u].conn.mss
        /\ mssCacheLock = 0
        /\ GetMSSByAddr_mss(th[t].conn.laddr, th[t].conn.raddr)
              = hMSS[th[t].conn.laddr \o th[t].conn.raddr]

StageOfCause(cause) ==
    CASE cause \in InvalidAddress -> "validation"
      [] cause \in {"raw.DialRAW", "raw.ListenRAW", "net.ResolveUDPAddr",
                    "net.ListenUDP"} -> "transport"
      [] cause \in {"mulcon.Dial", "mulcon.Listen"} -> "multiplex"
      [] cause \in {"kcp.NewConn", "kcp.ServeConn"} -> "session-wrap"
      [] OTHER -> "none"

StageOfWrap(msg) ==
    CASE msg = "checkAddr" -> "validation"
      [] msg \in {"net.DialRAW", "net.ListenRAW"} -> "transport"
      [] msg \in {"DialMulWithOptions", "ListenMulWithOptions"} -> "multiplex"
      [] OTHER -> "unannotated"

(* C8 as claimed: every error an entry point returns carries the           *)
(* annotation of the stage that failed.                                    *)
C8_AsClaimed ==
    \A t \in Threads :
        (th[t].pc = "done" /\ th[t].op \in EntryPoints /\ th[t].ret.err # NilErr)
        => StageOfWrap(th[t].ret.err.wrap) = StageOfCause(th[t].ret.err.cause)

(* C9: an entry point returns either a handle and no error, or no handle   *)
(* and the error of the stage that failed; never both, never neither.      *)
C9_NilXorError ==
    \A t \in Threads :
        (th[t].pc = "done" /\ th[t].op \in EntryPoints) =>
            /\ th[t].ret.h = "nil" <=> th[t].ret.err # NilErr
            /\ th[t].ret.err # NilErr => th[t].ret.err.cause # "nil"

(* A multiplexed listen has failed in the multiplexer: nil and the error.  *)
C9_Witness ==
    \E t \in Threads :
        /\ At(t, "ListenMulWithOptions", "done")
        /\ th[t].ret.err.cause = "mulcon.Listen"
        /\ th[t].ret.h = "nil"

(* C10: a record of (L, R, mss) made when the entry for L+R already holds  *)
(* mss leaves the cache as it was, and GetMSSByAddr(L, R) returns mss.     *)
C10_Idempotent ==
    [][\A t \in Threads :
          (/\ At(t, "DialWithOptions", "L48")
           /\ th'[t].pc = "L49"
           /\ GetMSSByAddr_mss(th[t].la, th[t].ra) = th[t].mss)
          => (/\ mssCache' = mssCache
              /\ GetMSSByAddr_mss(th[t].la, th[t].ra)' = th[t].mss)]_vars

(* A dial has just recorded again what another dial had recorded.          *)
C10_Witness ==
    \E t, u \in Threads :
        /\ t # u
        /\ At(t, "DialWithOptions", "L49")
        /\ th[u].op = "DialWithOptions" /\ th[u].pc \in {"L90", "done"}
        /\ th[u].conn = th[t].conn
        /\ GetMSSByAddr_mss(th[t].la, th[t].ra) = th[t].mss

RawCalls(t) == DOMAIN th[t].cfg

(* C11: every raw dial or listen that a call makes after the setters have  *)
(* returned reads, in each of the five fields, the argument of the last    *)
(* setter of that field (the zero value where none was called).            *)
C11_SetterThenCall ==
    \A t \in Threads : \A k \in RawCalls(t) : th[t].cfg[k] = hSet

(* After SetNoHTTP(true), a plain dial has reached the raw transport with  *)
(* NoHTTP set.                                                             *)
C11_Witness ==
    \E t \in Threads :
        /\ DialOK(t)
        /\ hSet.NoHTTP
        /\ th[t].cfg = <<hSet>>

(* C12 as claimed: the entry of an address on which a plain listen has     *)
(* succeeded never changes: no step replaces or removes it.                *)
C12_AsClaimed ==
    [][\A k \in (DOMAIN lisCache) \cap hListenOK :
          k \in DOMAIN lisCache' /\ lisCache'[k] = lisCache[k]]_vars

(* C12, amended: an entry is never removed, and it changes only by the     *)
(* record step of a plain listen whose raw listener is bound to that       *)
(* address, which puts that listen's own handle there.                     *)
C12_EntryKeptOrReplaced ==
    [][\A k \in DOMAIN lisCache :
          /\ k \in DOMAIN lisCache'
          /\ \/ lisCache'[k] = lisCache[k]
             \/ \E t \in Threads :
                   /\ At(t, "ListenWithOptions", "L64")
                   /\ th[t].lis.laddr = k
                   /\ th'[t].pc = "L65"
                   /\ lisCache'[k] = th[t].lis]_vars

(* A plain listen has replaced the entry of an address on which an         *)
(* earlier plain listen had succeeded.                                     *)
C12_Witness ==
    \E t \in Threads :
        /\ At(t, "ListenWithOptions", "L65")
        /\ th[t].lis.laddr \in hListenOK
        /\ GetListenerByAddr_lis(th[t].lis.laddr) = th[t].lis

MulEntryPoints ==
    {"DialMulWithOptions", "DialMulWithOptions_udp",
     "ListenMulWithOptions", "ListenMulWithOptions_udp"}

(* C13: no step of a multiplexed entry point (the dial function's raw      *)
(* dials included) changes either cache, such a call has made no record    *)
(* when it returns, and a step that changes the MSS cache is the write of  *)
(* a plain dial, one that changes the listener cache the write of a plain  *)
(* listen.                                                                 *)
C13_OnlyPlainPathsWrite ==
    [][/\ \A t \in Threads :
             (th[t].op \in MulEntryPoints /\ th'[t] # th[t]) =>
                 /\ mssCache' = mssCache /\ lisCache' = lisCache
                 /\ th'[t].nput = 0
       /\ mssCache' # mssCache =>
             \E t \in Threads : At(t, "DialWithOptions", "L48") /\ th'[t].pc = "L49"
       /\ lisCache' # lisCache =>
             \E t \in Threads : At(t, "ListenWithOptions", "L64") /\ th'[t].pc = "L65"]_vars

(* A multiplexed dial of two physical connections has succeeded and the    *)
(* MSS cache is empty.                                                     *)
C13_Witness ==
    \E t \in Threads :
        /\ At(t, "DialMulWithOptions", "done")
        /\ th[t].ret.h = "session"
        /\ Len(th[t].cfg) = 2
        /\ th[t].nput = 0
        /\ mssCache = EmptyMap

(* C14: a plain dial has made no record when raw.DialRAW has just         *)
(* returned and exactly one when it reaches the session wrap; when the     *)
(* wrap fails the call returns nil with the error and GetMSSByAddr of the  *)
(* connection's pair still returns the connection's MSS.  Likewise a plain *)
(* listen, kcp.ServeConn and GetListenerByAddr.                            *)
C14_NoRollback ==
    \A t \in Threads :
        /\ At(t, "DialWithOptions", "L89") => th[t].nput = 0 /\ th[t].ncalls = 1
        /\ At(t, "DialWithOptions", "L90") => th[t].nput = 1 /\ th[t].ncalls = 1
        /\ (At(t, "DialWithOptions", "done") /\ th[t].ret.err.cause = "kcp.NewConn") =>
              /\ th[t].ret.h = "nil"
              /\ th[t].nput = 1
              /\ GetMSSByAddr_mss(th[t].conn.laddr, th[t].conn.raddr) = th[t].conn.mss
        /\ At(t, "ListenWithOptions", "L138") => th[t].nput = 0 /\ th[t].ncalls = 1
        /\ At(t, "ListenWithOptions", "L139") => th[t].nput = 1 /\ th[t].ncalls = 1
        /\ (At(t, "ListenWithOptions", "done") /\ th[t].ret.err.cause = "kcp.ServeConn") =>
              /\ th[t].ret.h = "nil"
              /\ th[t].nput = 1
              /\ GetListenerByAddr_lis(th[t].lis.laddr) = th[t].lis

(* A plain dial has failed at the session wrap and its pair has an entry.  *)
C14_Witness ==
    \E t \in Threads :
        /\ At(t, "DialWithOptions", "done")
        /\ th[t].ret.err.cause = "kcp.NewConn"
        /\ putMSSByAddr_s(th[t].conn.laddr, th[t].conn.raddr) \in DOMAIN mssCache

NonValidating ==
    {"ListenMulWithOptions", "DialMulWithOptions_udp", "ListenMulWithOptions_udp"}

FirstLine(o) ==
    CASE o = "ListenMulWithOptions" -> "L161"
      [] o = "DialMulWithOptions_udp" -> "L94"
      [] o = "ListenMulWithOptions_udp" -> "L143"

FirstStage(o) ==
    IF o = "ListenMulWithOptions" THEN "raw.ListenRAW" ELSE "net.ResolveUDPAddr"

NoHostOrWild == {NoHostAddr, WildAddr}

(* C15: a non-validating entry point called with an empty host or host     *)
(* 0.0.0.0 never returns the validator's error; once it has left its first *)
(* line it has called a collaborator, the first one being raw.ListenRAW    *)
(* (ListenMulWithOptions, which has then read the configuration) or        *)
(* net.ResolveUDPAddr (the udp variants): a call that returned after one   *)
(* collaborator call with an error carries that stage's error.             *)
C15_NoValidation ==
    \A t \in Threads :
        (th[t].op \in NonValidating /\ th[t].addr \in NoHostOrWild) =>
            /\ th[t].pc # FirstLine(th[t].op) => th[t].ncalls >= 1
            /\ (th[t].op = "ListenMulWithOptions" /\ th[t].pc # "L161") =>
                  Len(th[t].cfg) = 1
            /\ th[t].op # "ListenMulWithOptions" => th[t].cfg = <<>>
            /\ th[t].pc = "done" =>
                  /\ th[t].ret.err.cause \notin InvalidAddress
                  /\ th[t].ret.err.wrap # "checkAddr"
                  /\ (th[t].ncalls = 1 /\ th[t].ret.err # NilErr) =>
                        th[t].ret.err.cause = FirstStage(th[t].op)

(* A multiplexed listen on 0.0.0.0:5 has gone through the raw transport    *)
(* and returned a listener.                                                *)
C15_Witness ==
    \E t \in Threads :
        /\ At(t, "ListenMulWithOptions", "done")
        /\ th[t].addr = WildAddr
        /\ th[t].lis.laddr = WildAddr
        /\ th[t].ret.h = "listener"

Lookups == {"GetMSSByAddr", "GetListenerByAddr"}

C17_SettersUnordered ==
    [][/\ \A t \in Threads :
             Len(th'[t].cfg) = Len(th[t].cfg) + 1 =>
                 LET r == th'[t].cfg[Len(th'[t].cfg)]
                 IN  /\ \/ r = hSet
                        \/ /\ r = [hSet EXCEPT !.Host = TornHost]
                           /\ \E u \in Threads :
                                 /\ At(u, "SetHost", "L180")
                                 /\ th[u].v.Host # hSet.Host
                     /\ mssCacheLock = 0 /\ lisCacheLock = 0
       /\ raw' # raw => mssCacheLock = 0 /\ lisCacheLock = 0]_vars

(* One multiplexed dial whose first physical connection read the zero      *)
(* configuration and whose second read NoHTTP = true, stored in between.   *)
C17_Witness ==
    \E t \in Threads :
        /\ At(t, "DialMulWithOptions", "L121")
        /\ Len(th[t].cfg) = 2
        /\ th[t].cfg[1] = DefaultRaw
        /\ th[t].cfg[2] = [DefaultRaw EXCEPT !.NoHTTP = TRUE]

(* C18 as claimed: the record of an MSS for the pair (L, R) leaves what    *)
(* GetMSSByAddr returns for every other pair (L', R') as it was.           *)
C18_AsClaimed ==
    [][\A t \in Threads :
          (At(t, "DialWithOptions", "L48") /\ th'[t].pc = "L49") =>
              \A p \in AllPairs :
                  p # <<th[t].la, th[t].ra>> =>
                      GetMSSByAddr_mss(p[1], p[2])' = GetMSSByAddr_mss(p[1], p[2])]_vars

(* The lines at which a caller is between Lock and Unlock of each mutex,   *)
(* the lines at which it waits for one, and the lines that call the raw    *)
(* transport or the session engine.                                        *)
InMSSLock(t) ==
    \/ th[t].op = "GetMSSByAddr" /\ th[t].pc \in {"L37", "L42"}
    \/ th[t].op = "DialWithOptions" /\ th[t].pc \in {"L48", "L49"}

InLisLock(t) ==
    \/ th[t].op = "GetListenerByAddr" /\ th[t].pc \in {"L54", "L59"}
    \/ th[t].op = "ListenWithOptions" /\ th[t].pc \in {"L64", "L65"}

WaitsMSSLock(t) ==
    At(t, "GetMSSByAddr", "L35") \/ At(t, "DialWithOptions", "L46")

WaitsLisLock(t) ==
    At(t, "GetListenerByAddr", "L52") \/ At(t, "ListenWithOptions", "L62")

InNetworkCall(t) ==
    \/ th[t].op = "DialWithOptions" /\ th[t].pc \in {"L85", "L90"}
    \/ th[t].op = "ListenWithOptions" /\ th[t].pc \in {"L134", "L139"}

StepOf(t) == MSSSteps(t) \/ LisSteps(t) \/ Resume(t)

(* C19: a caller holds a cache's mutex exactly on the lines between that   *)
(* cache operation's Lock and Unlock, where the map is read or written; so *)
(* it holds none once the operation has returned, never both, and none at  *)
(* a raw-transport or session-engine call.  A call in progress can always  *)
(* take its next step unless it waits for a mutex, and then the holder is  *)
(* another caller that can take its own: nothing deadlocks, and a caller   *)
(* in a network call keeps no lookup waiting.                              *)
C19_LockDiscipline ==
    /\ \A t \in Threads :
          /\ mssCacheLock = t <=> InMSSLock(t)
          /\ lisCacheLock = t <=> InLisLock(t)
          /\ ~(mssCacheLock = t /\ lisCacheLock = t)
          /\ InNetworkCall(t) => mssCacheLock # t /\ lisCacheLock # t
          /\ th[t].pc \in {"idle", "done"} => mssCacheLock # t /\ lisCacheLock # t
    /\ mssCacheLock \in Threads \cup {0} /\ lisCacheLock \in Threads \cup {0}
    /\ \A t \in Threads :
          th[t].pc # "idle" =>
              \/ ENABLED StepOf(t)
              \/ /\ WaitsMSSLock(t)
                 /\ mssCacheLock \in Threads \ {t}
                 /\ ~InNetworkCall(mssCacheLock)
                 /\ ENABLED StepOf(mssCacheLock)
              \/ /\ WaitsLisLock(t)
                 /\ lisCacheLock \in Threads \ {t}
                 /\ ~InNetworkCall(lisCacheLock)
                 /\ ENABLED StepOf(lisCacheLock)

(* A lookup reads the MSS cache under the lock while another caller's      *)
(* plain dial is in the session engine.                                    *)
C19_Witness ==
    \E t, u \in Threads :
        /\ At(t, "GetMSSByAddr", "L37")
        /\ At(u, "DialWithOptions", "L90")
        /\ mssCacheLock = t

=============================================================================
